---- MODULE Spec2Model ----
(***************************************************************************)
(* A model of the CHIP-8 interpreter of src/src/cpu.rs: the CPU struct,    *)
(* the fetch-decode-dispatch loop of CPU::run and one action per match arm *)
(* of the dispatch.  Every handler is an operator from machine state to    *)
(* machine state, written after the handler's code; the action of a match  *)
(* arm fetches, advances the program counter, applies the handler and      *)
(* commits.                                                                *)
(***************************************************************************)
EXTENDS Integers, Naturals, Sequences, FiniteSets, TLC

VARIABLES
    registers,        \* CPU.registers: [u8; 16]
    program_counter,  \* CPU.program_counter: usize
    memory,           \* CPU.memory: [u8; 0x1000]
    stack,            \* CPU.stack: [u16; 16]
    stack_pointer,    \* CPU.stack_pointer: usize
    index_register,   \* CPU.index_register: u16
    delay_timer,      \* CPU.delay_timer: the byte inside the Arc<Mutex<u8>>
    buffer,           \* run's local `buffer`: Vec<u32> of WIDTH * HEIGHT cells
    window,           \* run's local `window`: the frame shown and the keys it reports
    status,           \* where run is: "running", "returned", "quit", "panicked"
    run_at,           \* where a running cycle is: "fetch", or inside "read_timer"
    lock,             \* the contexts holding delay_timer's Mutex (0 is run)
    futures,          \* the set_timer futures an executor drives, in creation order
    last_tick,        \* history: << value tested, value left >> by the last tick
    expected,         \* history: the last value written, less the ticks since
    overflow_checks,  \* the build: TRUE when arithmetic overflow panics (debug)
    hist,             \* history: the cycles executed so far, most recent first
    stack_ops,        \* history: the current run of calls and the returns after it
    keyboard          \* the host keys held now; the window learns them when updated

vars == << registers, program_counter, memory, stack, stack_pointer,
           index_register, delay_timer, buffer, window, status, run_at,
           lock, futures, last_tick, expected, overflow_checks, hist, stack_ops,
           keyboard >>

-----------------------------------------------------------------------------
(* Program constants *)

WIDTH == 64
HEIGHT == 32
MemSize == 4096
StackLen == 16
ProgramStart == 512

\* u32::MAX, as the pattern 0xFFFFFFFF reads in the 32-bit integers of TLC;
\* the code only stores it and compares cells with 0 and 1
U32_MAX == -1

(* memory, buffer and a frame are arrays held sparsely: a function from the   *)
(* indices of the nonzero cells to their values.  Every read and write goes   *)
(* through At and Put; the bounds checks of the indexing are in the handlers. *)
At(arr, i) == IF i \in DOMAIN arr THEN arr[i] ELSE 0
Put(arr, i, v) ==
    IF v = 0 THEN [j \in (DOMAIN arr) \ {i} |-> arr[j]]
    ELSE [j \in (DOMAIN arr) \cup {i} |-> IF j = i THEN v ELSE arr[j]]

-----------------------------------------------------------------------------
(* Bounds of the model *)

\* how many cycles of history are kept
HistLen == 3

-----------------------------------------------------------------------------
(* Byte arithmetic *)

RECURSIVE BitAnd(_, _)
BitAnd(a, b) ==
    IF a = 0 \/ b = 0 THEN 0
    ELSE (a % 2) * (b % 2) + 2 * BitAnd(a \div 2, b \div 2)

RECURSIVE BitOr(_, _)
BitOr(a, b) ==
    IF a = 0 THEN b
    ELSE IF b = 0 THEN a
    ELSE (IF a % 2 = 1 \/ b % 2 = 1 THEN 1 ELSE 0) + 2 * BitOr(a \div 2, b \div 2)

RECURSIVE BitXor(_, _)
BitXor(a, b) ==
    IF a = 0 THEN b
    ELSE IF b = 0 THEN a
    ELSE ((a + b) % 2) + 2 * BitXor(a \div 2, b \div 2)

\* u8::overflowing_add, u8::overflowing_sub: << value, overflow >>
overflowing_add(a, b) == << (a + b) % 256, a + b > 255 >>
overflowing_sub(a, b) == << (a - b + 256) % 256, a < b >>

-----------------------------------------------------------------------------
(* The machine: the CPU struct together with run's locals *)

Machine ==
    [ registers       |-> registers,
      program_counter |-> program_counter,
      memory          |-> memory,
      stack           |-> stack,
      stack_pointer   |-> stack_pointer,
      index_register  |-> index_register,
      delay_timer     |-> delay_timer,
      buffer          |-> buffer,
      window          |-> window,
      overflow_checks |-> overflow_checks,
      status          |-> status ]

\* panic!(), a failed bounds check, or an arithmetic overflow in a checked build
Panic(c) == [c EXCEPT !.status = "panicked"]

\* the six parts of an opcode: 0xcxyd, 0x_nnn and 0x__kk
OpC(opcode) == opcode \div 4096
OpX(opcode) == (opcode \div 256) % 16
OpY(opcode) == (opcode \div 16) % 16
OpD(opcode) == opcode % 16
OpNNN(opcode) == opcode % 4096
OpKK(opcode) == opcode % 256

\* read_opcode: the two bytes at the program counter, most significant first
read_opcode(c) ==
    At(c.memory, c.program_counter) * 256 + At(c.memory, c.program_counter + 1)

\* the match of run: the arm an opcode takes, first pattern first
Dispatch(opcode) ==
    LET c == OpC(opcode)
        x == OpX(opcode)
        y == OpY(opcode)
        d == OpD(opcode)
    IN  IF c = 0 /\ x = 0 /\ y = 0 /\ d = 0 THEN "return"
        ELSE IF c = 0 /\ x = 0 /\ y = 14 /\ d = 0 THEN "clear"
        ELSE IF c = 0 /\ x = 0 /\ y = 14 /\ d = 14 THEN "ret"
        ELSE IF c = 1 THEN "jump"
        ELSE IF c = 2 THEN "call"
        ELSE IF c = 3 THEN "skip_x_equal"
        ELSE IF c = 4 THEN "skip_x_nequal"
        ELSE IF c = 5 /\ d = 0 THEN "skip_equal"
        ELSE IF c = 6 THEN "set"
        ELSE IF c = 7 THEN "add"
        ELSE IF c = 8 /\ d = 0 THEN "set_xy"
        ELSE IF c = 8 /\ d = 1 THEN "bitwise_or"
        ELSE IF c = 8 /\ d = 2 THEN "bitwise_and"
        ELSE IF c = 8 /\ d = 3 THEN "bitwise_xor"
        ELSE IF c = 8 /\ d = 4 THEN "add_xy"
        ELSE IF c = 8 /\ d = 5 THEN "sub_xy"
        ELSE IF c = 8 /\ d = 6 THEN "shift_right"
        ELSE IF c = 8 /\ d = 7 THEN "sub_yx"
        ELSE IF c = 8 /\ d = 14 THEN "shift_left"
        ELSE IF c = 9 /\ d = 0 THEN "skip_nequal"
        ELSE IF c = 10 THEN "set_index"
        ELSE IF c = 11 THEN "jump_offset"
        ELSE IF c = 12 THEN "random"
        ELSE IF c = 13 THEN "display"
        ELSE IF c = 14 /\ y = 9 /\ d = 14 THEN "skip_key_pressed"
        ELSE IF c = 14 /\ y = 10 /\ d = 1 THEN "skip_key_npressed"
        ELSE IF c = 15 /\ y = 0 /\ d = 7 THEN "set_timer"
        ELSE IF c = 15 /\ y = 1 /\ d = 5 THEN "read_timer"
        ELSE IF c = 15 /\ y = 1 /\ d = 8 THEN "nop"
        ELSE IF c = 15 /\ y = 1 /\ d = 14 THEN "add_to_index"
        ELSE IF c = 15 /\ y = 0 /\ d = 10 THEN "get_key"
        ELSE IF c = 15 /\ y = 2 /\ d = 9 THEN "font"
        ELSE IF c = 15 /\ y = 3 /\ d = 3 THEN "decimal"
        ELSE IF c = 15 /\ y = 5 /\ d = 5 THEN "store_memory"
        ELSE IF c = 15 /\ y = 6 /\ d = 5 THEN "load_memory"
        ELSE "unmatched"

-----------------------------------------------------------------------------
(* Handlers: registers and arithmetic *)

SetReg(c, x, v) == [c EXCEPT !.registers[x] = v]
SetFlag(c, overflow, on, off) ==
    [c EXCEPT !.registers[15] = IF overflow THEN on ELSE off]

set(c, x, kk) == SetReg(c, x, kk)

\* add, raising the flag register when the sum overflows
add_setting_carry(c, x, kk) ==
    LET val == c.registers[x]
    IN  IF val + kk <= 255 THEN SetReg(c, x, val + kk)
        ELSE [SetReg(c, x, c.registers[x] - 1) EXCEPT !.registers[15] = 1]

\* checked_add: the sum, or on overflow the previous value minus one
add(c, x, kk) ==
    LET val == c.registers[x]
    IN  IF val + kk <= 255 THEN SetReg(c, x, val + kk)
        ELSE SetReg(c, x, c.registers[x] - 1)

set_xy(c, x, y) == SetReg(c, x, c.registers[y])
bitwise_or(c, x, y) == SetReg(c, x, BitOr(c.registers[x], c.registers[y]))
bitwise_and(c, x, y) == SetReg(c, x, BitAnd(c.registers[x], c.registers[y]))
bitwise_xor(c, x, y) == SetReg(c, x, BitXor(c.registers[x], c.registers[y]))

\* add_xy with the flag convention of the subtractions
add_xy_flag_as_sub(c, x, y) ==
    LET r == overflowing_add(c.registers[x], c.registers[y])
    IN  SetFlag(SetReg(c, x, r[1]), r[2], 0, 1)

add_xy(c, x, y) ==
    LET arg1 == c.registers[x]
        arg2 == c.registers[y]
        r == overflowing_add(arg1, arg2)
    IN  SetFlag(SetReg(c, x, r[1]), r[2], 1, 0)

sub_xy(c, x, y) ==
    LET arg1 == c.registers[x]
        arg2 == c.registers[y]
        r == overflowing_sub(arg1, arg2)
    IN  SetFlag(SetReg(c, x, r[1]), r[2], 0, 1)

\* sub_yx with the operands in the order of sub_xy
sub_yx_as_sub_xy(c, x, y) ==
    LET r == overflowing_sub(c.registers[x], c.registers[y])
    IN  SetFlag(SetReg(c, x, r[1]), r[2], 0, 1)

sub_yx(c, x, y) ==
    LET arg1 == c.registers[x]
        arg2 == c.registers[y]
        r == overflowing_sub(arg2, arg1)
    IN  SetFlag(SetReg(c, x, r[1]), r[2], 0, 1)

\* the flag is written first, the register is shifted after it
shift_left(c, x) ==
    LET f == SetFlag(c, BitAnd(c.registers[x], 128) = 128, 1, 0)
    IN  SetReg(f, x, (f.registers[x] * 2) % 256)

shift_right(c, x) ==
    LET f == SetFlag(c, BitAnd(c.registers[x], 1) = 1, 1, 0)
    IN  SetReg(f, x, f.registers[x] \div 2)

\* gen_range(0..u8::MAX) draws `random` from 0..254
random(c, x, kk, rnd) == SetReg(c, x, BitAnd(rnd, kk))

-----------------------------------------------------------------------------
(* Handlers: control flow and the stack *)

jump(c, nnn) == [c EXCEPT !.program_counter = nnn]

jump_offset(c, nnn) ==
    [c EXCEPT !.program_counter = nnn + c.registers[0]]

Skip(c, cond) ==
    IF cond THEN [c EXCEPT !.program_counter = @ + 2] ELSE c

skip_nequal(c, x, y) == Skip(c, c.registers[x] # c.registers[y])
skip_equal(c, x, y) == Skip(c, c.registers[x] = c.registers[y])
\* skip_x_nequal with the test of skip_x_equal
skip_x_nequal_testing_equal(c, x, kk) == Skip(c, c.registers[x] = kk)

skip_x_nequal(c, x, kk) == Skip(c, c.registers[x] # kk)

skip_x_equal(c, x, kk) == Skip(c, c.registers[x] = kk)

\* call, refusing only when stack_pointer is past the capacity
call_checking_late(c, nnn) ==
    LET sp == c.stack_pointer
    IN  IF sp > StackLen THEN Panic(c)
        ELSE [c EXCEPT !.stack = [i \in DOMAIN @ |->
                                      IF i = sp THEN c.program_counter % 65536
                                      ELSE @[i]],
                       !.stack_pointer = @ + 1,
                       !.program_counter = nnn]

\* call, saving the address of the call instruction itself
call_pushing_call_site(c, nnn) ==
    LET sp == c.stack_pointer
    IN  IF sp >= StackLen THEN Panic(c)
        ELSE [c EXCEPT !.stack[sp] = (c.program_counter - 2) % 65536,
                       !.stack_pointer = @ + 1,
                       !.program_counter = nnn]

call(c, nnn) ==
    LET sp == c.stack_pointer
    IN  IF sp >= StackLen THEN Panic(c)
        ELSE [c EXCEPT !.stack[sp] = c.program_counter % 65536,
                       !.stack_pointer = @ + 1,
                       !.program_counter = nnn]

\* ret, doing nothing when no address is saved
ret_ignoring_empty(c) ==
    IF c.stack_pointer = 0 THEN c
    ELSE LET sp == c.stack_pointer - 1
         IN  [c EXCEPT !.stack_pointer = sp,
                       !.program_counter = c.stack[sp]]

ret(c) ==
    IF c.stack_pointer = 0 THEN Panic(c)
    ELSE LET sp == c.stack_pointer - 1
         IN  [c EXCEPT !.stack_pointer = sp,
                       !.program_counter = c.stack[sp]]

-----------------------------------------------------------------------------
(* Handlers: the index register and memory *)

set_index(c, nnn) == [c EXCEPT !.index_register = nnn]

\* add_to_index, raising the flag when the sum leaves the 4 KiB of memory
add_to_index_flagging_4095(c, x) ==
    LET arg1 == c.registers[x]
        sum == c.index_register + arg1
    IN  SetFlag([c EXCEPT !.index_register = sum % 65536], sum > 4095, 1, 0)

add_to_index(c, x) ==
    LET arg1 == c.registers[x]
        sum == c.index_register + arg1
    IN  SetFlag([c EXCEPT !.index_register = sum % 65536], sum > 65535, 1, 0)

font(c, x) ==
    LET font_char == BitAnd(c.registers[x], 15)
    IN  [c EXCEPT !.index_register = font_char * 5]

\* a value that may be absent (Option), or a result that may have panicked
None == << >>
Some(v) == << v >>
Get(o) == o[1]

\* (self.index_register + i as u16) as usize: None when the u16 sum overflows
\* in a build that checks overflow, else the wrapped sum
IndexPlus(c, i) ==
    LET sum == c.index_register + i
    IN  IF sum > 65535 /\ c.overflow_checks THEN None ELSE Some(sum % 65536)

\* memory[(self.index_register + i as u16) as usize]: the address, or None
\* when the sum or the bounds check of the indexing panics
Address(c, i) ==
    LET a == IndexPlus(c, i)
    IN  IF a = None THEN None
        ELSE IF Get(a) >= MemSize THEN None
        ELSE a

\* for i in 0..=x { registers[i] = memory[index_register + i] }
RECURSIVE LoadFrom(_, _, _)
LoadFrom(c, i, x) ==
    IF i > x THEN c
    ELSE LET a == Address(c, i)
         IN  IF a = None THEN Panic(c)
             ELSE LoadFrom(SetReg(c, i, At(c.memory, Get(a))), i + 1, x)

load_memory(c, x) == LoadFrom(c, 0, x)

\* for i in 0..=x { memory[index_register + i] = registers[i] }
RECURSIVE StoreFrom(_, _, _)
StoreFrom(c, i, x) ==
    IF i > x THEN c
    ELSE LET a == Address(c, i)
         IN  IF a = None THEN Panic(c)
             ELSE StoreFrom([c EXCEPT !.memory = Put(@, Get(a), c.registers[i])], i + 1, x)

\* a store whose loop is 0..x, leaving Vx out
store_memory_exclusive(c, x) == StoreFrom(c, 0, x - 1)

store_memory(c, x) == StoreFrom(c, 0, x)

\* u8::to_string and char::to_digit: the decimal digits, no leading zeros
Digits(v) ==
    IF v >= 100 THEN << v \div 100, (v \div 10) % 10, v % 10 >>
    ELSE IF v >= 10 THEN << v \div 10, v % 10 >>
    ELSE << v >>

\* for (i, digit) in digits.iter().enumerate() { memory[index_register + i] = digit }
RECURSIVE StoreDigits(_, _, _)
StoreDigits(c, digits, i) ==
    IF i >= Len(digits) THEN c
    ELSE LET a == Address(c, i)
         IN  IF a = None THEN Panic(c)
             ELSE StoreDigits([c EXCEPT !.memory = Put(@, Get(a), digits[i + 1])],
                              digits, i + 1)

decimal(c, x) == StoreDigits(c, Digits(c.registers[x]), 0)

-----------------------------------------------------------------------------
(* The window and the display *)

\* Window::update_with_buffer: the frame is shown, and the window takes the
\* key state of the host, `held`, as it is at this update
update_with_buffer(c, frame, held) ==
    [c EXCEPT !.window = [frame |-> frame, keys |-> held]]

\* [0u32; WIDTH * HEIGHT], and vec![0; WIDTH * HEIGHT]
ZeroFrame == [i \in {} |-> 0]

\* clear shows an all-zero frame; run's buffer is not passed and is not changed
clear(c, held) == update_with_buffer(c, ZeroFrame, held)

\* (yp * WIDTH as u8 + xp) as usize, computed in u8: None when it overflows
\* in a build that checks overflow, else the wrapped value
ReadIndex(c, xp, yp) ==
    LET prod == yp * (WIDTH % 256)
        sum == (prod % 256) + xp
    IN  IF (prod > 255 \/ sum > 255) /\ c.overflow_checks THEN None
        ELSE Some(sum % 256)

\* yp as usize * WIDTH + xp as usize
WriteIndex(xp, yp) == yp * WIDTH + xp

\* one bit of a sprite row whose mask matched: the cell read decides the write
DrawPixel(c, xp, yp) ==
    LET r == ReadIndex(c, xp, yp)
        w == WriteIndex(xp, yp)
    IN  IF r = None THEN Panic(c)
        ELSE IF At(c.buffer, Get(r)) = 1
             THEN [c EXCEPT !.buffer = Put(@, w, 0), !.registers[15] = 1]
        ELSE IF At(c.buffer, Get(r)) = 0
             THEN [c EXCEPT !.buffer = Put(@, w, U32_MAX)]
        ELSE c

\* for j in 0..8: << machine, xp, TRUE when `continue 'rows` was taken >>
RECURSIVE DrawBits(_, _, _, _, _)
DrawBits(c, sprite_row, xp, yp, j) ==
    IF j = 8 THEN << c, xp, FALSE >>
    ELSE IF xp >= 64 THEN << c, xp, TRUE >>
    ELSE LET mask == 128 \div (2 ^ j)
             c1 == IF BitAnd(sprite_row, mask) \in {1, 2, 4, 8, 16, 32, 64, 128}
                   THEN DrawPixel(c, xp, yp)
                   ELSE c
         IN  IF c1.status = "panicked" THEN << c1, xp, FALSE >>
             ELSE DrawBits(c1, sprite_row, xp + 1, yp, j + 1)

\* 'rows: for row in 0..n
RECURSIVE DrawRows(_, _, _, _, _)
DrawRows(c, xp, yp, row, n) ==
    IF row >= n THEN c
    ELSE IF yp >= 32 THEN c
    ELSE LET a == Address(c, row)
         IN  IF a = None THEN Panic(c)
             ELSE LET r == DrawBits(c, At(c.memory, Get(a)), xp, yp, 0)
                  IN  IF r[1].status = "panicked" THEN r[1]
                      ELSE IF r[3] THEN DrawRows(r[1], r[2], yp, row + 1, n)
                      ELSE DrawRows(r[1], r[2] - 8, yp + 1, row + 1, n)

display(c, x, y, n, held) ==
    LET xp == c.registers[x]
        yp == c.registers[y]
        c0 == [c EXCEPT !.registers[15] = 0]
        drawn == DrawRows(c0, xp, yp, 0, n)
    IN  IF drawn.status = "panicked" THEN drawn
        ELSE update_with_buffer(drawn, drawn.buffer, held)

-----------------------------------------------------------------------------
(* The keypad *)

HostKeys ==
    { "Key1", "Key2", "Key3", "Key4", "Q", "W", "E", "R",
      "A", "S", "D", "F", "Z", "X", "C", "V" }

\* the match of get_depressed_key
KeyCode(key) ==
    CASE key = "Key1" -> 1
      [] key = "Key2" -> 2
      [] key = "Key3" -> 3
      [] key = "Key4" -> 12
      [] key = "Q" -> 4
      [] key = "W" -> 5
      [] key = "E" -> 6
      [] key = "R" -> 13
      [] key = "A" -> 7
      [] key = "S" -> 8
      [] key = "D" -> 9
      [] key = "F" -> 13
      [] key = "Z" -> 10
      [] key = "X" -> 0
      [] key = "C" -> 11
      [] key = "V" -> 15

\* get_depressed_key: the keycode of the last mapped key of window.get_keys(),
\* whose order is the window's: any mapped key held may be the last; None
\* when no mapped key is held
get_depressed_key(c) ==
    LET mapped == c.window.keys \cap HostKeys
    IN  IF mapped = {} THEN {None} ELSE { Some(KeyCode(k)) : k \in mapped }

get_key(c, x, key) ==
    IF key # None THEN SetReg(c, x, Get(key))
    ELSE [c EXCEPT !.program_counter = @ - 2]

skip_key_npressed(c, x, key) ==
    IF key # None THEN Skip(c, c.registers[x] # Get(key)) ELSE c

skip_key_pressed(c, x, key) ==
    IF key # None THEN Skip(c, c.registers[x] = Get(key)) ELSE c

-----------------------------------------------------------------------------
(* The delay timer *)

\* *self.delay_timer.lock().unwrap(): read under the guard of the statement
\* Mutex::lock returns to `context` only when no context holds the guard
AcquirableAlways(context) == TRUE

Acquirable(context) == lock = {}

read_timer(c, x) == SetReg(c, x, c.delay_timer)

\* if *timer > 0
TickTestAlways(timer) == TRUE

TickTest(timer) == timer > 0

\* *timer -= 1, in u8: None when it overflows in a build that checks overflow
TickDecrement(c) ==
    IF c.delay_timer > 0 THEN Some(c.delay_timer - 1)
    ELSE IF c.overflow_checks THEN None
    ELSE Some(255)

\* calling the async fn builds its future and runs none of its body
set_timer(c, x) == c

-----------------------------------------------------------------------------
(* The image main loads: the font at 0, the program at 0x200 *)

font_table ==
    << 240, 144, 144, 144, 240,   32,  96,  32,  32, 112,
       240,  16, 240, 128, 240,  240,  16, 240,  16, 240,
       144, 144, 240,  16,  16,  240, 128, 240,  16, 240,
       240, 128, 240, 144, 240,  240,  16,  32,  64,  64,
       240, 144, 240, 144, 240,  240, 144, 240,  16, 240,
       240, 144, 240, 144, 144,  224, 144, 224, 144, 224,
       240, 128, 128, 128, 240,  224, 144, 144, 144, 224,
       240, 128, 240, 128, 240,  240, 128, 240, 128, 128 >>

\* the bytes of a program given as 16-bit words, most significant byte first
ProgramBytes(words) ==
    [ i \in 1 .. 2 * Len(words) |->
        IF i % 2 = 1 THEN words[(i + 1) \div 2] \div 256
        ELSE words[i \div 2] % 256 ]

\* memory[i] = font[i]; memory[i + 0x200] = program[i]; every other byte 0
ImageByte(program, a) ==
    IF a < Len(font_table) THEN font_table[a + 1]
    ELSE IF a >= ProgramStart /\ a < ProgramStart + Len(program)
         THEN program[a - ProgramStart + 1]
    ELSE 0

LoadImage(program) ==
    LET used == (0 .. (Len(font_table) - 1))
                \cup (ProgramStart .. (ProgramStart + Len(program) - 1))
    IN  [ a \in { b \in used : ImageByte(program, b) # 0 } |-> ImageByte(program, a) ]

-----------------------------------------------------------------------------
(* The inputs: the program file, the build, the keys the host holds *)

Word(c, x, y, d) == c * 4096 + x * 256 + y * 16 + d
WordKK(c, x, kk) == c * 4096 + x * 256 + kk
WordNNN(c, nnn) == c * 4096 + nnn

RegSample == {0, 1, 15}
ByteSample == {0, 1, 127, 128, 255}
RandSample == {0, 85, 254}
HeldSets == { {}, {"Key1", "F"}, {"E"}, {"Escape"} }

\* set two registers, then one two-register instruction
TwoRegOps == { <<8, 0>>, <<8, 1>>, <<8, 2>>, <<8, 3>>, <<8, 4>>, <<8, 5>>,
               <<8, 6>>, <<8, 7>>, <<8, 14>>, <<5, 0>>, <<9, 0>> }
TwoRegPrograms ==
    { << WordKK(6, x, a), WordKK(6, y, b), Word(op[1], x, y, op[2]) >> :
        x \in RegSample, y \in RegSample, a \in ByteSample, b \in ByteSample,
        op \in TwoRegOps }

\* set a register, then one register-and-literal instruction
LiteralPrograms ==
    { << WordKK(6, x, a), WordKK(c, x, b) >> :
        x \in RegSample, a \in ByteSample, b \in ByteSample, c \in {3, 4, 7, 12} }

\* set the flag register, set a register, then add a literal to it; and the
\* program 6005 7003
FlagPrograms ==
    { << WordKK(6, 15, f), WordKK(6, x, a), WordKK(7, x, b) >> :
        f \in {1, 255}, x \in {0, 1}, a \in ByteSample, b \in ByteSample }
    \cup { << WordKK(6, 0, 5), WordKK(7, 0, 3) >> }

\* n nested calls and n returns: the main program calls subroutine 1 and
\* halts; subroutine i, at 0x200 + 4 * i, calls subroutine i + 1 and returns;
\* subroutine n only returns
Subroutine(i) == ProgramStart + 4 * i
CallChain(n) ==
    [ k \in 1 .. (2 * n + 1) |->
        IF k = 1 THEN WordNNN(2, Subroutine(1))
        ELSE IF k = 2 THEN 0
        ELSE IF k % 2 = 0 THEN 238
        ELSE IF (k - 1) \div 2 < n THEN WordNNN(2, Subroutine((k - 1) \div 2 + 1))
        ELSE 238 ]
StackPrograms ==
    { CallChain(n) : n \in 1 .. (StackLen + 1) }
    \cup { << WordNNN(2, 518), WordNNN(2, 518), 0, WordNNN(2, 522), 238, 238 >>,
           << 238 >>, << WordNNN(2, 512) >> }

\* a sprite drawn once over an empty or a drawn-on screen, then drawn again
SpriteSample == {0, 5, 75}
PosSample == { <<0, 0>>, <<5, 2>>, <<3, 1>>, <<10, 4>>, <<60, 0>>, <<2, 30>>, <<70, 40>> }
RowsSample == {1, 5}
DrawPrograms ==
    { << WordNNN(10, i), WordKK(6, 0, p[1]), WordKK(6, 1, p[2]),
         Word(13, 0, 1, n), Word(13, 0, 1, n) >> :
        i \in SpriteSample, p \in PosSample, n \in RowsSample }
    \cup
    { << WordNNN(10, 0), WordKK(6, 0, 3), WordKK(6, 1, 1), Word(13, 0, 1, 5),
         WordNNN(10, i), WordKK(6, 0, p[1]), WordKK(6, 1, p[2]),
         Word(13, 0, 1, n), Word(13, 0, 1, n) >> :
        i \in SpriteSample, p \in {<<5, 2>>, <<3, 1>>}, n \in RowsSample }

\* add V0 = 255 to the index register, from 4095 on, `turns` times over, then
\* add the register `x`, holding 255, once more
IndexLoop(turns, x) ==
    << WordKK(6, 0, 255), WordNNN(10, 4095), WordKK(6, 1, 0),
       Word(15, 0, 1, 14), WordKK(7, 1, 1), WordKK(3, 1, turns),
       WordNNN(1, ProgramStart + 6),
       WordKK(6, x, 255), Word(15, x, 1, 14) >>

IndexPrograms == { IndexLoop(242, 0), IndexLoop(240, 15), IndexLoop(240, 2) }

\* words that no arm of the dispatch matches, and Fx18, after some state has
\* been set up
UnknownWords ==
    << Word(5, 0, 1, 1), Word(8, 0, 1, 8), Word(9, 0, 1, 1), Word(14, 0, 0, 0),
       Word(15, 0, 0, 0), 225, Word(15, 0, 1, 8), 291, Word(8, 15, 1, 15),
       Word(14, 1, 9, 15), Word(15, 2, 5, 6) >>

UnknownPrograms ==
    { << WordKK(6, 0, 5), WordKK(6, 15, 1), WordNNN(10, 5),
         Word(13, 0, 1, 1) >> \o UnknownWords }

\* store V0..Vx at I, overwrite V0, load V0..Vx back from I
StorePrograms ==
    { << WordNNN(10, I), WordKK(6, 0, 7), WordKK(6, 2, 9), WordKK(6, 15, 11),
         Word(15, x, 5, 5), WordKK(6, 0, 238), Word(15, x, 6, 5) >> :
        x \in {0, 2, 15}, I \in {768, 4080, 4093} }

\* store the decimal digits of a value at 0x300
DecimalPrograms ==
    { << WordNNN(10, 768), WordKK(6, 3, v), Word(15, 3, 3, 3) >> :
        v \in {0, 7, 42, 100, 255} }

\* draw, clear the screen, then draw again at another place
ClearPrograms ==
    { << WordNNN(10, 0), WordKK(6, 0, 3), WordKK(6, 1, 1), Word(13, 0, 1, 3),
         224, WordNNN(10, i), WordKK(6, 0, p[1]), WordKK(6, 1, p[2]),
         Word(13, 0, 1, n) >> :
        i \in SpriteSample, p \in {<<3, 1>>, <<12, 0>>, <<60, 2>>}, n \in {1, 3} }

\* set the timer, read it, set it again, read it again
TimerPrograms ==
    { << WordKK(6, 0, v), Word(15, 0, 0, 7), Word(15, 1, 1, 5),
         WordKK(6, 2, w), Word(15, 2, 0, 7), Word(15, 3, 1, 5) >> :
        v \in {0, 1, 3}, w \in {0, 2} }

\* the other instructions
OtherPrograms ==
    { << WordNNN(1, 516), 0, WordKK(6, 0, 5) >>,
      << WordNNN(1, 4095) >>,
      << WordKK(6, 0, 4), WordNNN(11, 512), WordKK(6, 1, 1) >>,
      << WordKK(6, 3, 171), Word(15, 3, 2, 9), Word(15, 3, 1, 8), Word(5, 3, 3, 1) >>,
      << WordNNN(10, 768), WordKK(6, 2, 254), Word(15, 2, 3, 3), Word(15, 2, 1, 14) >>,
      << WordNNN(10, 768), WordKK(6, 0, 7), WordKK(6, 1, 9), Word(15, 1, 5, 5),
         WordKK(6, 0, 0), WordKK(6, 1, 0), Word(15, 1, 6, 5) >>,
      << WordNNN(10, 4095), WordKK(6, 1, 9), Word(15, 1, 5, 5) >>,
      << WordNNN(10, 4095), Word(15, 1, 6, 5) >>,
      << WordKK(6, 0, 3), WordKK(6, 1, 5), Word(15, 0, 0, 7), Word(15, 1, 0, 7),
         Word(15, 2, 1, 5) >>,
      << 224, WordKK(6, 0, 1), Word(14, 0, 9, 14), Word(14, 0, 10, 1), Word(15, 2, 0, 10),
         224, Word(15, 2, 0, 10) >> }

Programs ==
    TwoRegPrograms \cup LiteralPrograms \cup StackPrograms \cup DrawPrograms
    \cup TimerPrograms \cup OtherPrograms \cup FlagPrograms \cup ClearPrograms
    \cup IndexPrograms \cup UnknownPrograms \cup DecimalPrograms \cup StorePrograms

-----------------------------------------------------------------------------
(* The state after main has built the CPU and run has made its window *)

Init ==
    /\ registers = [i \in 0 .. 15 |-> 0]
    /\ program_counter = ProgramStart
    /\ \E program \in Programs : memory = LoadImage(ProgramBytes(program))
    /\ stack = [i \in 0 .. (StackLen - 1) |-> 0]
    /\ stack_pointer = 0
    /\ index_register = 0
    /\ delay_timer = 0
    /\ buffer = ZeroFrame
    /\ window = [frame |-> ZeroFrame, keys |-> {}]
    /\ status = "running"
    /\ run_at = "fetch"
    /\ lock = {}
    /\ futures = << >>
    /\ last_tick = None
    /\ expected = 0
    /\ overflow_checks \in BOOLEAN
    /\ hist = << >>
    /\ stack_ops = [calls |-> << >>, returned |-> 0, start |-> 0]
    /\ keyboard = {}

-----------------------------------------------------------------------------
(* One cycle of run's loop *)

\* the cycle's record in the history: the arm taken, the opcode, and the
\* machine as it was when the opcode was fetched
Cycled(op, opcode, before) == [op |-> op, opcode |-> opcode, before |-> before]

Remember(rec) ==
    LET all == << rec >> \o hist
    IN  hist' = SubSeq(all, 1, IF Len(all) < HistLen THEN Len(all) ELSE HistLen)

Commit(c) ==
    /\ registers' = c.registers
    /\ program_counter' = c.program_counter
    /\ memory' = c.memory
    /\ stack' = c.stack
    /\ stack_pointer' = c.stack_pointer
    /\ index_register' = c.index_register
    /\ delay_timer' = c.delay_timer
    /\ buffer' = c.buffer
    /\ window' = c.window
    /\ status' = c.status
    /\ UNCHANGED overflow_checks

\* the top of the loop: run is running and the window reports no Escape
AtFetch ==
    /\ status = "running"
    /\ run_at = "fetch"
    /\ "Escape" \notin window.keys

\* read_opcode's two reads of memory are in bounds
Fetchable == program_counter + 1 < MemSize

Opcode == read_opcode(Machine)
X == OpX(Opcode)
Y == OpY(Opcode)
D == OpD(Opcode)
NNN == OpNNN(Opcode)
KK == OpKK(Opcode)

\* the machine after `self.program_counter += 2`
Fetched == [Machine EXCEPT !.program_counter = @ + 2]

\* the arm `op` is the one the fetched opcode takes
Arm(op) == AtFetch /\ Fetchable /\ Dispatch(Opcode) = op

\* the arm's handler has run: c is the machine it leaves
\* the history of the stack: `calls` holds the addresses of the call
\* instructions of the current run of consecutive calls, `start` the stack
\* pointer that run began with, `returned` the number of returns since
Traced(op, c) ==
    IF c.status # "running" THEN stack_ops
    ELSE IF op = "call"
         THEN IF stack_ops.returned > 0 \/ stack_ops.calls = << >>
              THEN [calls |-> << program_counter >>, returned |-> 0,
                    start |-> stack_pointer]
              ELSE [stack_ops EXCEPT !.calls = Append(@, program_counter)]
    ELSE IF op = "ret"
         THEN [stack_ops EXCEPT !.returned = @ + 1]
    ELSE stack_ops

Cycle(op, c) ==
    /\ Commit(c)
    /\ Remember(Cycled(op, Opcode, Machine))
    /\ stack_ops' = Traced(op, c)
    /\ UNCHANGED << run_at, lock, futures, last_tick, expected, keyboard >>

\* the user presses or releases keys; the window does not learn of it before
\* its next update_with_buffer
key_event ==
    /\ status = "running"
    /\ \E held \in HeldSets : held # keyboard /\ keyboard' = held
    /\ UNCHANGED << registers, program_counter, memory, stack, stack_pointer,
                    index_register, delay_timer, buffer, window, status, run_at,
                    lock, futures, last_tick, expected, overflow_checks, hist,
                    stack_ops >>

\* if window.is_key_down(Key::Escape) { break 'running; }
run_quit ==
    /\ status = "running"
    /\ run_at = "fetch"
    /\ "Escape" \in window.keys
    /\ status' = "quit"
    /\ UNCHANGED << registers, program_counter, memory, stack, stack_pointer,
                    index_register, delay_timer, buffer, window, run_at, lock,
                    futures, last_tick, expected, overflow_checks, hist, stack_ops,
                    keyboard >>

\* read_opcode indexes memory out of bounds
run_fetch_panic ==
    /\ AtFetch
    /\ ~Fetchable
    /\ status' = "panicked"
    /\ UNCHANGED << registers, program_counter, memory, stack, stack_pointer,
                    index_register, delay_timer, buffer, window, run_at, lock,
                    futures, last_tick, expected, overflow_checks, hist, stack_ops,
                    keyboard >>

\* the arm of 0x0000 falling through to the end of the loop's body
run_return_continuing ==
    /\ Arm("return")
    /\ Cycle("return", Fetched)

\* (0, 0, 0, 0) => { return; }
run_return ==
    /\ Arm("return")
    /\ Cycle("return", [Fetched EXCEPT !.status = "returned"])

run_clear ==
    /\ Arm("clear")
    /\ Cycle("clear", clear(Fetched, keyboard))

run_ret ==
    /\ Arm("ret")
    /\ Cycle("ret", ret(Fetched))

run_jump ==
    /\ Arm("jump")
    /\ Cycle("jump", jump(Fetched, NNN))

run_call ==
    /\ Arm("call")
    /\ Cycle("call", call(Fetched, NNN))

run_skip_x_equal ==
    /\ Arm("skip_x_equal")
    /\ Cycle("skip_x_equal", skip_x_equal(Fetched, X, KK))

run_skip_x_nequal ==
    /\ Arm("skip_x_nequal")
    /\ Cycle("skip_x_nequal", skip_x_nequal(Fetched, X, KK))

run_skip_equal ==
    /\ Arm("skip_equal")
    /\ Cycle("skip_equal", skip_equal(Fetched, X, Y))

run_set ==
    /\ Arm("set")
    /\ Cycle("set", set(Fetched, X, KK))

run_add ==
    /\ Arm("add")
    /\ Cycle("add", add(Fetched, X, KK))

run_set_xy ==
    /\ Arm("set_xy")
    /\ Cycle("set_xy", set_xy(Fetched, X, Y))

run_bitwise_or ==
    /\ Arm("bitwise_or")
    /\ Cycle("bitwise_or", bitwise_or(Fetched, X, Y))

run_bitwise_and ==
    /\ Arm("bitwise_and")
    /\ Cycle("bitwise_and", bitwise_and(Fetched, X, Y))

run_bitwise_xor ==
    /\ Arm("bitwise_xor")
    /\ Cycle("bitwise_xor", bitwise_xor(Fetched, X, Y))

run_add_xy ==
    /\ Arm("add_xy")
    /\ Cycle("add_xy", add_xy(Fetched, X, Y))

run_sub_xy ==
    /\ Arm("sub_xy")
    /\ Cycle("sub_xy", sub_xy(Fetched, X, Y))

run_shift_right ==
    /\ Arm("shift_right")
    /\ Cycle("shift_right", shift_right(Fetched, X))

run_sub_yx ==
    /\ Arm("sub_yx")
    /\ Cycle("sub_yx", sub_yx(Fetched, X, Y))

run_shift_left ==
    /\ Arm("shift_left")
    /\ Cycle("shift_left", shift_left(Fetched, X))

run_skip_nequal ==
    /\ Arm("skip_nequal")
    /\ Cycle("skip_nequal", skip_nequal(Fetched, X, Y))

run_set_index ==
    /\ Arm("set_index")
    /\ Cycle("set_index", set_index(Fetched, NNN))

run_jump_offset ==
    /\ Arm("jump_offset")
    /\ Cycle("jump_offset", jump_offset(Fetched, NNN))

run_random ==
    /\ Arm("random")
    /\ \E rnd \in RandSample : Cycle("random", random(Fetched, X, KK, rnd))

run_display ==
    /\ Arm("display")
    /\ Cycle("display", display(Fetched, X, Y, D, keyboard))

run_skip_key_pressed ==
    /\ Arm("skip_key_pressed")
    /\ \E key \in get_depressed_key(Machine) :
          Cycle("skip_key_pressed", skip_key_pressed(Fetched, X, key))

run_skip_key_npressed ==
    /\ Arm("skip_key_npressed")
    /\ \E key \in get_depressed_key(Machine) :
          Cycle("skip_key_npressed", skip_key_npressed(Fetched, X, key))

run_add_to_index ==
    /\ Arm("add_to_index")
    /\ Cycle("add_to_index", add_to_index(Fetched, X))

run_get_key ==
    /\ Arm("get_key")
    /\ \E key \in get_depressed_key(Machine) :
          Cycle("get_key", get_key(Fetched, X, key))

run_font ==
    /\ Arm("font")
    /\ Cycle("font", font(Fetched, X))

run_decimal ==
    /\ Arm("decimal")
    /\ Cycle("decimal", decimal(Fetched, X))

run_store_memory ==
    /\ Arm("store_memory")
    /\ Cycle("store_memory", store_memory(Fetched, X))

run_load_memory ==
    /\ Arm("load_memory")
    /\ Cycle("load_memory", load_memory(Fetched, X))

run_nop ==
    /\ Arm("nop")
    /\ Cycle("nop", Fetched)

\* the last arm as todo!(..): an unrecognized word panics
run_unmatched_aborting ==
    /\ Arm("unmatched")
    /\ Cycle("unmatched", Panic(Fetched))

run_unmatched ==
    /\ Arm("unmatched")
    /\ Cycle("unmatched", Fetched)

\* (0xF, _, 0, 0x7) => decrement_future = &self.set_timer(x): the future is
\* built, never polled, and dropped at the end of the arm
run_set_timer ==
    /\ Arm("set_timer")
    /\ Cycle("set_timer", set_timer(Fetched, X))

\* read_timer, first half: the Mutex is locked
run_read_timer_lock ==
    /\ Arm("read_timer")
    /\ Acquirable(0)
    /\ lock' = lock \cup {0}
    /\ run_at' = "read_timer"
    /\ program_counter' = program_counter + 2
    /\ UNCHANGED << registers, memory, stack, stack_pointer, index_register,
                    delay_timer, buffer, window, status, futures, last_tick, expected,
                    overflow_checks, hist, stack_ops, keyboard >>

\* read_timer, second half: the byte is read into Vx and the guard is dropped
run_read_timer ==
    /\ status = "running"
    /\ run_at = "read_timer"
    /\ LET before == [Machine EXCEPT !.program_counter = @ - 2]
           opcode == read_opcode(before)
       IN  /\ Commit(read_timer(Machine, OpX(opcode)))
           /\ Remember(Cycled("read_timer", opcode, before))
    /\ lock' = lock \ {0}
    /\ run_at' = "fetch"
    /\ UNCHANGED << futures, last_tick, expected, stack_ops, keyboard >>

Next ==
    \/ run_quit
    \/ run_fetch_panic
    \/ run_return
    \/ run_clear
    \/ run_ret
    \/ run_jump
    \/ run_call
    \/ run_skip_x_equal
    \/ run_skip_x_nequal
    \/ run_skip_equal
    \/ run_set
    \/ run_add
    \/ run_set_xy
    \/ run_bitwise_or
    \/ run_bitwise_and
    \/ run_bitwise_xor
    \/ run_add_xy
    \/ run_sub_xy
    \/ run_shift_right
    \/ run_sub_yx
    \/ run_shift_left
    \/ run_skip_nequal
    \/ run_set_index
    \/ run_jump_offset
    \/ run_random
    \/ run_display
    \/ run_skip_key_pressed
    \/ run_skip_key_npressed
    \/ run_add_to_index
    \/ run_get_key
    \/ run_font
    \/ run_decimal
    \/ run_store_memory
    \/ run_load_memory
    \/ run_nop
    \/ run_unmatched
    \/ run_set_timer
    \/ run_read_timer_lock
    \/ run_read_timer
    \/ key_event

Spec == Init /\ [][Next]_vars


-----------------------------------------------------------------------------
(* set_timer's future, polled.  run itself never polls the future it builds
   (run_set_timer above).  TimerSpec is the unit-level view of set_timer: an
   executor drives every future built, one step at a time, interleaved in
   every order with run's cycles and with the other futures.  It allows more
   interleavings than any one executor does. *)

\* (0xF, _, 0, 0x7): the future is built; here it is kept and driven
run_spawn_set_timer ==
    /\ Arm("set_timer")
    /\ Commit(set_timer(Fetched, X))
    /\ Remember(Cycled("set_timer", Opcode, Machine))
    /\ futures' = Append(futures, [x |-> X, at |-> "created", v |-> 0, seen |-> 0])
    /\ UNCHANGED << run_at, lock, last_tick, expected, stack_ops, keyboard >>

Driven(i, at) ==
    /\ status = "running"
    /\ i \in 1 .. Len(futures)
    /\ futures[i].at = at

Unrun ==
    << registers, program_counter, memory, stack, stack_pointer,
       index_register, buffer, window, run_at, overflow_checks, hist,
       stack_ops, keyboard >>

\* first poll: interval(..) is built and self.registers[x] is evaluated
FutureStart(i) ==
    /\ Driven(i, "created")
    /\ futures' = [futures EXCEPT ![i].at = "lock_write",
                                  ![i].v = registers[futures[i].x]]
    /\ UNCHANGED << Unrun, status, delay_timer, lock, last_tick, expected >>

\* self.delay_timer.lock().unwrap()
FutureLockWrite(i) ==
    /\ Driven(i, "lock_write")
    /\ Acquirable(i)
    /\ lock' = lock \cup {i}
    /\ futures' = [futures EXCEPT ![i].at = "write"]
    /\ UNCHANGED << Unrun, status, delay_timer, last_tick, expected >>

\* *guard = value; the guard is dropped at the end of the statement
FutureWrite(i) ==
    /\ Driven(i, "write")
    /\ delay_timer' = futures[i].v
    /\ expected' = futures[i].v
    /\ lock' = lock \ {i}
    /\ futures' = [futures EXCEPT ![i].at = "await"]
    /\ UNCHANGED << Unrun, status, last_tick >>

\* interval.tick().await completes; let mut timer = self.delay_timer.lock()
FutureTick(i) ==
    /\ Driven(i, "await")
    /\ Acquirable(i)
    /\ lock' = lock \cup {i}
    /\ futures' = [futures EXCEPT ![i].at = "test"]
    /\ UNCHANGED << Unrun, status, delay_timer, last_tick, expected >>

\* if *timer > 0; when it is not, the guard is dropped and the loop awaits
FutureTest(i) ==
    /\ Driven(i, "test")
    /\ IF TickTest(delay_timer)
       THEN /\ futures' = [futures EXCEPT ![i].at = "decrement",
                                          ![i].seen = delay_timer]
            /\ UNCHANGED << lock, last_tick, expected >>
       ELSE /\ futures' = [futures EXCEPT ![i].at = "await"]
            /\ lock' = lock \ {i}
            /\ last_tick' = << delay_timer, delay_timer >>
            /\ expected' = IF expected > 0 THEN expected - 1 ELSE 0
    /\ UNCHANGED << Unrun, status, delay_timer >>

\* *timer -= 1; the guard is dropped at the end of the loop's body
FutureDecrement(i) ==
    /\ Driven(i, "decrement")
    /\ LET left == TickDecrement(Machine)
       IN  IF left = None
           THEN /\ status' = "panicked"
                /\ UNCHANGED << delay_timer, lock, futures, last_tick, expected >>
           ELSE /\ delay_timer' = Get(left)
                /\ lock' = lock \ {i}
                /\ futures' = [futures EXCEPT ![i].at = "await"]
                /\ last_tick' = << futures[i].seen, Get(left) >>
                /\ expected' = IF expected > 0 THEN expected - 1 ELSE 0
                /\ UNCHANGED status
    /\ UNCHANGED Unrun

TimerNext ==
    \/ run_quit
    \/ run_fetch_panic
    \/ run_return
    \/ run_clear
    \/ run_ret
    \/ run_jump
    \/ run_call
    \/ run_skip_x_equal
    \/ run_skip_x_nequal
    \/ run_skip_equal
    \/ run_set
    \/ run_add
    \/ run_set_xy
    \/ run_bitwise_or
    \/ run_bitwise_and
    \/ run_bitwise_xor
    \/ run_add_xy
    \/ run_sub_xy
    \/ run_shift_right
    \/ run_sub_yx
    \/ run_shift_left
    \/ run_skip_nequal
    \/ run_set_index
    \/ run_jump_offset
    \/ run_random
    \/ run_display
    \/ run_skip_key_pressed
    \/ run_skip_key_npressed
    \/ run_add_to_index
    \/ run_get_key
    \/ run_font
    \/ run_decimal
    \/ run_store_memory
    \/ run_load_memory
    \/ run_nop
    \/ run_unmatched
    \/ run_spawn_set_timer
    \/ run_read_timer_lock
    \/ run_read_timer
    \/ key_event
    \/ \E i \in 1 .. Len(futures) : FutureStart(i)
    \/ \E i \in 1 .. Len(futures) : FutureLockWrite(i)
    \/ \E i \in 1 .. Len(futures) : FutureWrite(i)
    \/ \E i \in 1 .. Len(futures) : FutureTick(i)
    \/ \E i \in 1 .. Len(futures) : FutureTest(i)
    \/ \E i \in 1 .. Len(futures) : FutureDecrement(i)

TimerSpec == Init /\ [][TimerNext]_vars

-----------------------------------------------------------------------------
(* The claims.  Did(op) holds in the states that follow a cycle of arm op;   *)
(* Before is the machine as that cycle fetched it, and the operands below    *)
(* are those of its opcode.                                                  *)

Did(op) == hist # << >> /\ hist[1].op = op
Before == hist[1].before
LastX == OpX(hist[1].opcode)
LastY == OpY(hist[1].opcode)
LastD == OpD(hist[1].opcode)
LastKK == OpKK(hist[1].opcode)
LastNNN == OpNNN(hist[1].opcode)
\* Vx and Vy as the cycle found them
LastA == Before.registers[LastX]
LastB == Before.registers[LastY]
Bool(p) == IF p THEN 1 ELSE 0

\* C1 as stated: after add_xy, for every x and y including 15, Vx is
\* (a + b) mod 256 and V15 is 1 iff a + b > 255
C1_AddXYSumAndCarry ==
    Did("add_xy") =>
        /\ registers[LastX] = (LastA + LastB) % 256
        /\ registers[15] = Bool(LastA + LastB > 255)

\* C1 amended: after add_xy V15 is 1 iff a + b > 255, else 0, for every x and
\* y; Vx is (a + b) mod 256 for every x other than 15, where the flag
\* replaces the sum
C1_AddXYCarryThenSum ==
    Did("add_xy") =>
        /\ registers[15] = Bool(LastA + LastB > 255)
        /\ LastX # 15 => registers[LastX] = (LastA + LastB) % 256

C1_Witness ==
    /\ Did("add_xy")
    /\ LastX # 15
    /\ LastY = 15
    /\ LastA + LastB > 255
    /\ registers[LastX] = LastA + LastB - 256

\* C2: after sub_xy V15 is 0 iff a < b, else 1; after sub_yx V15 is 0 iff
\* b < a, else 1, for every x and y
C2_SubBorrowFlags ==
    /\ Did("sub_xy") => registers[15] = Bool(~(LastA < LastB))
    /\ Did("sub_yx") => registers[15] = Bool(~(LastB < LastA))

C2_Witness ==
    /\ Did("sub_yx")
    /\ LastX = 15
    /\ LastB < LastA
    /\ registers[15] = 0

\* C3: after shift_left V15 is bit 7 of v and after shift_right V15 is
\* bit 0 of v, for every x including 15; Vx is (v * 2) mod 256 after
\* shift_left and v div 2 after shift_right, for every x that is not the flag
\* register itself
C3_ShiftFlagAndResult ==
    /\ Did("shift_left") =>
          /\ registers[15] = LastA \div 128
          /\ LastX # 15 => registers[LastX] = (LastA * 2) % 256
    /\ Did("shift_right") =>
          /\ registers[15] = LastA % 2
          /\ LastX # 15 => registers[LastX] = LastA \div 2

\* C4: after the i-th return that follows a run of N calls, with no other
\* call or return in between, program_counter is the address of the
\* (N + 1 - i)-th call of the run plus 2, and after the N-th return
\* stack_pointer is what it was when the run began
C4_ReturnsInReverseOrder ==
    LET N == Len(stack_ops.calls)
        i == stack_ops.returned
    IN  (Did("ret") /\ status = "running" /\ i \in 1 .. N) =>
            /\ program_counter = stack_ops.calls[N + 1 - i] + 2
            /\ i = N => stack_pointer = stack_ops.start

C4_Witness ==
    /\ Did("ret")
    /\ status = "running"
    /\ Len(stack_ops.calls) = StackLen
    /\ stack_ops.returned = StackLen
    /\ program_counter = stack_ops.calls[1] + 2
    /\ stack_pointer = 0

\* C5: a call with stack_pointer = 16 and a ret with stack_pointer = 0
\* panic, and leave the stack, stack_pointer and the registers as the
\* instruction found them
C5_StackFaultsAreFatal ==
    (\/ Did("call") /\ Before.stack_pointer = StackLen
     \/ Did("ret") /\ Before.stack_pointer = 0) =>
        /\ status = "panicked"
        /\ stack = Before.stack
        /\ stack_pointer = Before.stack_pointer
        /\ registers = Before.registers

C5_Witness ==
    /\ Did("call")
    /\ Before.stack_pointer = StackLen
    /\ status = "panicked"
    /\ stack_pointer = StackLen
    /\ \A i \in 0 .. (StackLen - 1) : stack[i] # 0

C5_WitnessEmpty ==
    /\ Did("ret")
    /\ Before.stack_pointer = 0
    /\ status = "panicked"

\* a display cycle `rec` of the history: where it drew, and what
DrawnX(rec) == rec.before.registers[OpX(rec.opcode)]
DrawnY(rec) == rec.before.registers[OpY(rec.opcode)]
DrawnRows(rec) == OpD(rec.opcode)

\* the sprite bit that the draw `rec` lays over the pixel (px, py), 0 where
\* the sprite does not reach
SpriteBit(rec, px, py) ==
    LET xp == DrawnX(rec)
        yp == DrawnY(rec)
    IN  IF px \in xp .. (xp + 7) /\ py \in yp .. (yp + DrawnRows(rec) - 1)
        THEN LET row == At(rec.before.memory,
                           rec.before.index_register + (py - yp))
             IN  (row \div (2 ^ (7 - (px - xp)))) % 2
        ELSE 0

\* the pixel (px, py) of a frame is lit
On(frame, px, py) == At(frame, py * WIDTH + px) # 0

Pixels == (0 .. (WIDTH - 1)) \X (0 .. (HEIGHT - 1))

\* C6: when display has run twice in succession with the same sprite at the
\* same on-screen position, every pixel under a 1 bit of the sprite is as it
\* was before the first draw, and V15 is 1 if the first draw lit a pixel
C6_DrawTwiceRestores ==
    (/\ Len(hist) >= 2
     /\ hist[1].op = "display" /\ hist[2].op = "display"
     /\ hist[1].opcode = hist[2].opcode
     /\ DrawnX(hist[1]) = DrawnX(hist[2]) /\ DrawnY(hist[1]) = DrawnY(hist[2])
     /\ hist[1].before.index_register = hist[2].before.index_register
     /\ DrawnX(hist[2]) < WIDTH /\ DrawnY(hist[2]) < HEIGHT) =>
        LET touched == { p \in Pixels : SpriteBit(hist[2], p[1], p[2]) = 1 }
            prior == hist[2].before.buffer
        IN  /\ \A p \in touched : On(buffer, p[1], p[2]) = On(prior, p[1], p[2])
            /\ (\E p \in touched : ~On(prior, p[1], p[2])) => registers[15] = 1

\* C7: after one display of a sprite that lies entirely on screen, every
\* pixel is lit iff it was lit before XOR its sprite bit is 1, and V15 is 1
\* iff a pixel lit before lies under a 1 bit of the sprite
C7_DrawIsXor ==
    (/\ Did("display")
     /\ DrawnX(hist[1]) + 8 <= WIDTH
     /\ DrawnY(hist[1]) + DrawnRows(hist[1]) <= HEIGHT) =>
        LET prior == Before.buffer
        IN  /\ \A p \in Pixels :
                  On(buffer, p[1], p[2]) =
                      (On(prior, p[1], p[2]) # (SpriteBit(hist[1], p[1], p[2]) = 1))
            /\ registers[15] =
                  Bool(\E p \in Pixels : /\ On(prior, p[1], p[2])
                                          /\ SpriteBit(hist[1], p[1], p[2]) = 1)

\* C8: once a set_timer cycle has run with Vx = v the delay timer holds v,
\* as long as no tick has run, and a read_timer that follows it reads a
\* value from 0 to v
C8_SetTimerWritesV ==
    /\ (Did("set_timer") /\ last_tick = None) => delay_timer = LastA
    /\ (/\ Len(hist) >= 2
        /\ hist[1].op = "read_timer" /\ hist[2].op = "set_timer") =>
           registers[LastX] \in
               0 .. hist[2].before.registers[OpX(hist[2].opcode)]

\* C9: the delay timer is a byte, and a tick that tested the value `old`
\* left old - 1 when old > 0 and 0 when old = 0; no tick panics
C9_TickSaturates ==
    /\ delay_timer \in 0 .. 255
    /\ last_tick # None =>
          last_tick[2] = IF last_tick[1] > 0 THEN last_tick[1] - 1 ELSE 0
    /\ \A i \in 1 .. Len(futures) :
          futures[i].at = "decrement" => status # "panicked"

C9_Witness ==
    /\ last_tick = << 1, 0 >>
    /\ delay_timer = 0
    /\ Len(futures) = 2

C9_WitnessAtZero ==
    /\ last_tick = << 0, 0 >>
    /\ \E i \in 1 .. Len(futures) : futures[i].v > 0

\* C10: at most one context holds the lock; read_timer's read, set_timer's
\* write and the tick's test and decrement run with the lock held; no
\* context holds it while suspended; and whenever the lock is free the delay
\* timer is the last value written less the ticks since, stopping at 0
C10_LockDiscipline ==
    /\ Cardinality(lock) <= 1
    /\ run_at = "read_timer" <=> 0 \in lock
    /\ \A i \in 1 .. Len(futures) :
          futures[i].at \in {"write", "test", "decrement"} <=> i \in lock
    /\ lock = {} => delay_timer = expected

C10_Witness ==
    /\ status = "running"
    /\ \E i, j \in 1 .. Len(futures) :
          /\ futures[i].at = "decrement"
          /\ lock = {i}
          /\ futures[j].at = "lock_write"
          /\ futures[j].v = 0
    /\ Arm("read_timer")

\* C11: from the load state, 6005 then 7003 leave V0 = 8, every other
\* register 0 and program_counter = 0x200 + 4; and add with x other than 15
\* leaves V15 as it found it, whether or not Vx + kk exceeds 255
C11_AddLiteralKeepsFlag ==
    /\ (/\ Len(hist) >= 2
        /\ hist[2].opcode = WordKK(6, 0, 5) /\ hist[1].opcode = WordKK(7, 0, 3)
        /\ hist[2].before.program_counter = ProgramStart
        /\ hist[2].before.registers = [i \in 0 .. 15 |-> 0]) =>
           /\ registers = [i \in 0 .. 15 |-> IF i = 0 THEN 8 ELSE 0]
           /\ program_counter = ProgramStart + 4
    /\ (Did("add") /\ LastX # 15) => registers[15] = Before.registers[15]

C11_Witness ==
    /\ Did("add")
    /\ LastX = 0
    /\ LastA + LastKK > 255
    /\ Before.registers[15] = 1
    /\ registers[15] = 1

C11_WitnessProgram ==
    /\ Len(hist) >= 2
    /\ hist[2].opcode = WordKK(6, 0, 5) /\ hist[1].opcode = WordKK(7, 0, 3)
    /\ registers[0] = 8
    /\ program_counter = ProgramStart + 4

\* C12: after add, Vx is (v + kk) mod 256 for every x, v and kk
C12_AddLiteralWraps ==
    Did("add") => registers[LastX] = (LastA + LastKK) % 256

\* C13: the cycle that fetches 0x0000 ends run and leaves the registers,
\* memory, the stack, the index register and the display as it found them;
\* once run has returned, that cycle is the last one executed
C13_ZeroWordHalts ==
    /\ Did("return") =>
          /\ status = "returned"
          /\ hist[1].opcode = 0
          /\ registers = Before.registers
          /\ memory = Before.memory
          /\ stack = Before.stack
          /\ stack_pointer = Before.stack_pointer
          /\ index_register = Before.index_register
          /\ buffer = Before.buffer
          /\ window = Before.window
    /\ status = "returned" => Did("return")

C13_Witness ==
    /\ Did("return")
    /\ status = "returned"
    /\ Len(hist) >= 2
    /\ hist[2].op = "display"
    /\ buffer # ZeroFrame
    /\ registers[0] # 0

\* C14: when Escape is held as run comes to the top of its loop, the next
\* step of run ends it: no further instruction is fetched
C14_QuitEndsRun ==
    [][(/\ status = "running"
        /\ run_at = "fetch"
        /\ "Escape" \in keyboard
        /\ keyboard' = keyboard) => status' = "quit"]_vars

\* C15: a get_key cycle run while no mapped key is held leaves
\* program_counter at the instruction and the registers, memory, the index
\* register and the stack as they were; run while a mapped key is held it
\* stores the code of a held key in Vx and leaves program_counter past the
\* instruction
C15_GetKeyWaits ==
    [][(Arm("get_key") /\ keyboard' = keyboard) =>
          IF keyboard \cap HostKeys = {}
          THEN UNCHANGED << program_counter, registers, memory,
                            index_register, stack, stack_pointer >>
          ELSE /\ program_counter' = program_counter + 2
               /\ registers'[X] \in { KeyCode(k) : k \in keyboard \cap HostKeys }]_vars

\* the logical keys the window reported held to the last cycle
HeldCodes == { KeyCode(k) : k \in Before.window.keys \cap HostKeys }

\* C16: skip_key_pressed leaves program_counter a further 2 ahead iff the
\* key (Vx AND 0xF) is among the keys held, skip_key_npressed iff it is not
\* among them
C16_KeySkips ==
    /\ Did("skip_key_pressed") =>
          ((program_counter = Before.program_counter + 4)
              <=> (LastA % 16) \in HeldCodes)
    /\ Did("skip_key_npressed") =>
          ((program_counter = Before.program_counter + 4)
              <=> (LastA % 16) \notin HeldCodes)

\* C17: after clear every pixel of the display buffer is off, and a
\* display that follows a clear lights the 1 bits of its sprite that fall on
\* screen and nothing else, with V15 = 0
C17_ClearTurnsAllOff ==
    /\ Did("clear") => \A p \in Pixels : ~On(buffer, p[1], p[2])
    /\ (Len(hist) >= 2 /\ hist[1].op = "display" /\ hist[2].op = "clear") =>
          /\ \A p \in Pixels :
                On(buffer, p[1], p[2]) <=> SpriteBit(hist[1], p[1], p[2]) = 1
          /\ registers[15] = 0

\* C18: after a display that ran to its end, on an empty screen, of a
\* sprite that starts on screen and reaches past the right or the bottom
\* edge, the pixels lit are the 1 bits of the sprite that fall on screen, in
\* every row of it that is on screen, and no others
C18_ClippedAtTheEdges ==
    (/\ Did("display")
     /\ status = "running"
     /\ \A p \in Pixels : ~On(Before.buffer, p[1], p[2])
     /\ DrawnX(hist[1]) < WIDTH /\ DrawnY(hist[1]) < HEIGHT
     /\ \/ DrawnX(hist[1]) + 7 >= WIDTH
        \/ DrawnY(hist[1]) + DrawnRows(hist[1]) - 1 >= HEIGHT) =>
        \A p \in Pixels :
            On(buffer, p[1], p[2]) <=> SpriteBit(hist[1], p[1], p[2]) = 1

\* the greatest offset from the index register that the last cycle's
\* instruction addresses: x for store_memory and load_memory, the number of
\* decimal digits less one for decimal, the last sprite row read for display
LastOffset ==
    CASE hist[1].op \in {"store_memory", "load_memory"} -> LastX
      [] hist[1].op = "decimal" -> Len(Digits(LastA)) - 1
      [] hist[1].op = "display" ->
            LET rows == HEIGHT - DrawnY(hist[1])
            IN  (IF rows < LastD THEN rows ELSE LastD) - 1

\* C19: the addresses that store_memory, load_memory, decimal and the
\* sprite read of display form from the index register are at most 4095
C19_IndexedAddressesInMemory ==
    (/\ hist # << >>
     /\ hist[1].op \in {"store_memory", "load_memory", "decimal", "display"}
     /\ LastOffset >= 0) =>
        Before.index_register + LastOffset < MemSize

\* C20: whenever run is about to fetch, program_counter and
\* program_counter + 1 are at most 4095
C20_FetchInMemory ==
    (status = "running" /\ run_at = "fetch") => program_counter + 1 < MemSize

C22_AddToIndex ==
    Did("add_to_index") =>
        /\ index_register = (Before.index_register + LastA) % 65536
        /\ registers[15] = Bool(Before.index_register + LastA > 65535)

C22_Witness ==
    /\ Did("add_to_index")
    /\ LastX = 15
    /\ Before.index_register + LastA > 65535
    /\ index_register = Before.index_register + LastA - 65536
    /\ registers[15] = 1

C22_WitnessPastMemory ==
    /\ Did("add_to_index")
    /\ index_register > 4095
    /\ registers[15] = 0

\* the condition of the conditional skip that the last cycle ran
SkipCondition ==
    CASE hist[1].op = "skip_x_equal" -> LastA = LastKK
      [] hist[1].op = "skip_x_nequal" -> LastA # LastKK
      [] hist[1].op = "skip_equal" -> LastA = LastB
      [] hist[1].op = "skip_nequal" -> LastA # LastB

ConditionalSkips ==
    {"skip_x_equal", "skip_x_nequal", "skip_equal", "skip_nequal"}

\* C23: after a conditional skip at p, program_counter is p + 4 iff its
\* condition held and p + 2 otherwise, and the registers, memory, the stack
\* and the index register are as before
C23_ConditionalSkips ==
    (hist # << >> /\ hist[1].op \in ConditionalSkips) =>
        /\ program_counter =
              Before.program_counter + (IF SkipCondition THEN 4 ELSE 2)
        /\ registers = Before.registers
        /\ memory = Before.memory
        /\ stack = Before.stack
        /\ stack_pointer = Before.stack_pointer
        /\ index_register = Before.index_register

C23_Witness ==
    /\ Did("skip_x_nequal")
    /\ LastX = 15
    /\ LastA = 128 /\ LastKK = 127
    /\ program_counter = Before.program_counter + 4

C23_WitnessNoSkip ==
    /\ Did("skip_equal")
    /\ LastA # LastB
    /\ program_counter = Before.program_counter + 2

\* the keypad 1 2 3 C / 4 5 6 D / 7 8 9 E / A 0 B F laid over the host keys
\* 1 2 3 4 / Q W E R / A S D F / Z X C V, position by position
Keypad ==
    [Key1 |-> 1, Key2 |-> 2, Key3 |-> 3, Key4 |-> 12,
     Q |-> 4, W |-> 5, E |-> 6, R |-> 13,
     A |-> 7, S |-> 8, D |-> 9, F |-> 14,
     Z |-> 10, X |-> 0, C |-> 11, V |-> 15]

\* C24: get_depressed_key reports for each host key the logical key at its
\* position of the keypad, and every logical key 0 .. 15 for exactly one
\* host key
C24_KeyMapIsOneToOne ==
    /\ \A k \in HostKeys : KeyCode(k) = Keypad[k]
    /\ \A code \in 0 .. 15 :
          Cardinality({ k \in HostKeys : KeyCode(k) = code }) = 1
    /\ (Did("get_key") /\ program_counter = Before.program_counter + 2) =>
          \E k \in Before.window.keys \cap HostKeys :
              registers[LastX] = Keypad[k]

\* C25: while no tick has run, the delay timer holds the value that Vx had
\* when the latest set_timer cycle ran, whatever the cycles after it did to
\* the registers; and that cycle left the registers, memory, the index
\* register and the stack as they were
C25_TimerTakesInstructionValue ==
    /\ \A k \in 1 .. Len(hist) :
          (/\ hist[k].op = "set_timer"
           /\ \A j \in 1 .. (k - 1) : hist[j].op # "set_timer"
           /\ last_tick = None) =>
              delay_timer = hist[k].before.registers[OpX(hist[k].opcode)]
    /\ Did("set_timer") =>
          /\ registers = Before.registers
          /\ memory = Before.memory
          /\ index_register = Before.index_register
          /\ stack = Before.stack
          /\ stack_pointer = Before.stack_pointer

\* C26: a cycle whose word matches no arm of the dispatch, or is Fx18,
\* leaves program_counter 2 ahead and the registers, memory, the index
\* register, the stack, the stack pointer, the delay timer and the display
\* as they were, and run goes on
C26_UnknownWordsAreNoOps ==
    (Did("unmatched") \/ Did("nop")) =>
        /\ status = "running"
        /\ program_counter = Before.program_counter + 2
        /\ registers = Before.registers
        /\ memory = Before.memory
        /\ index_register = Before.index_register
        /\ stack = Before.stack
        /\ stack_pointer = Before.stack_pointer
        /\ delay_timer = Before.delay_timer
        /\ buffer = Before.buffer
        /\ window = Before.window

C26_Witness ==
    /\ Did("unmatched")
    /\ hist[1].opcode = 225
    /\ status = "running"
    /\ registers[0] = 5
    /\ index_register = 5
    /\ buffer # ZeroFrame

C26_WitnessNop ==
    /\ Did("nop")
    /\ registers[15] = 0 /\ registers[0] = 5

\* C27: after decimal, memory holds the hundreds digit of Vx at I, the tens
\* digit at I + 1 and the ones digit at I + 2, every other byte of memory
\* and the index register being as before
C27_DecimalDigitsAtFixedOffsets ==
    (Did("decimal") /\ Before.index_register + 2 < MemSize) =>
        LET I == Before.index_register
            v == LastA
        IN  /\ At(memory, I) = v \div 100
            /\ At(memory, I + 1) = (v \div 10) % 10
            /\ At(memory, I + 2) = v % 10
            /\ \A a \in 0 .. (MemSize - 1) :
                  a \notin I .. (I + 2) => At(memory, a) = At(Before.memory, a)
            /\ index_register = I

\* the cycles of the history that stored V0..Vx at the index address the
\* last cycle loaded from, with no write to memory in between
StoredBefore ==
    { k \in 2 .. Len(hist) :
        /\ hist[k].op = "store_memory"
        /\ OpX(hist[k].opcode) = LastX
        /\ hist[k].before.index_register = Before.index_register
        /\ \A j \in 2 .. (k - 1) : hist[j].op \notin {"store_memory", "decimal"} }

\* C28: with I + x <= 4095, store_memory(x) writes memory[I + i] := Vi for i
\* in 0..x and changes no other byte of memory, no register and not the index
\* register; load_memory(x) changes only V0..Vx; and a load_memory(x) that
\* follows a store_memory(x) with the same I leaves V0..Vx as they were
\* before the store, whatever the registers held in between
C28_StoreLoadRoundTrip ==
    LET I == Before.index_register
        x == LastX
    IN  /\ (Did("store_memory") /\ I + x <= 4095) =>
              /\ status = "running"
              /\ \A i \in 0 .. x : At(memory, I + i) = Before.registers[i]
              /\ \A a \in 0 .. (MemSize - 1) :
                    a \notin I .. (I + x) => At(memory, a) = At(Before.memory, a)
              /\ registers = Before.registers
              /\ index_register = I
        /\ (Did("load_memory") /\ I + x <= 4095) =>
              /\ status = "running"
              /\ \A i \in (x + 1) .. 15 : registers[i] = Before.registers[i]
              /\ memory = Before.memory
              /\ index_register = I
              /\ \A k \in StoredBefore :
                    \A i \in 0 .. x : registers[i] = hist[k].before.registers[i]

\* a store of V0..V2 at 0x300
C28_WitnessStore ==
    /\ Did("store_memory") /\ LastX = 2 /\ Before.index_register = 768
    /\ At(memory, 768) = 7 /\ At(memory, 770) = 9

\* the load three cycles later restores the V0 that was overwritten in between
C28_Witness ==
    /\ Did("load_memory") /\ LastX = 15 /\ Before.index_register = 4080
    /\ 3 \in StoredBefore
    /\ Before.registers[0] = 238
    /\ registers[0] = 7 /\ registers[2] = 9 /\ registers[15] = 11

\* the timer futures that have entered their decrementing loop
Decrementers ==
    { i \in 1 .. Len(futures) : futures[i].at \in {"await", "test", "decrement"} }

\* C29: at most one decrementing loop acts on the delay timer, a tick takes
\* at most 1 from it, and a set_timer that follows an earlier set_timer of
\* the run leaves the timer holding the value of its own Vx
C29_OneDecrementer ==
    /\ Cardinality(Decrementers) <= 1
    /\ last_tick # None => (last_tick[1] - last_tick[2]) \in {0, 1}
    /\ (/\ Did("set_timer")
        /\ \E k \in 2 .. Len(hist) : hist[k].op = "set_timer") =>
           delay_timer = LastA

\* C30: for a display from an on-screen position and every on-screen pixel
\* (px, py) under a 1 bit of its sprite, the cell read is the cell written,
\* py * 64 + px in 0..2047, the 8-bit sum that indexes the read neither
\* panics nor wraps, and a pixel left lit holds the value the on-test
\* compares with
C30_ReadCellIsWrittenCell ==
    (Did("display") /\ DrawnX(hist[1]) < WIDTH /\ DrawnY(hist[1]) < HEIGHT) =>
        \A p \in Pixels :
            SpriteBit(hist[1], p[1], p[2]) = 1 =>
                /\ WriteIndex(p[1], p[2]) \in 0 .. (WIDTH * HEIGHT - 1)
                /\ ReadIndex(Before, p[1], p[2]) = Some(WriteIndex(p[1], p[2]))
                /\ status = "running"
                /\ On(buffer, p[1], p[2]) => At(buffer, WriteIndex(p[1], p[2])) = 1

====
